---- MODULE Spec2Model ----
(***************************************************************************)
(* Model of com_vectionvr_osvr_motionPlatformDevicePlugin.cpp: the plugin  *)
(* entry point, the HardwareDetection callback and the TrackerSyncDevice   *)
(* whose update() sends a randomly oriented pose and sleeps.               *)
(*                                                                         *)
(* The host is the environment.  It loads the plugin once, then calls the  *)
(* detection callback and, once a device has registered itself, update(),  *)
(* one call at a time (the device is a sync device: initSync, line 57).    *)
(*                                                                         *)
(* float values are fixed-point integers with FX units per 1.0, every      *)
(* float operation rounds to the nearest unit.  The random generator is a  *)
(* nondeterministic choice among the values its distribution can return.   *)
(***************************************************************************)
EXTENDS Integers, Sequences, FiniteSets, TLC

----------------------------------------------------------------------------
(* Bounds of the model *)

\* fixed-point units per 1.0 (the precision of the modelled float)
FX == 10000
\* number of sample points taken from the range of the uniform distribution
AngleSamples == 5
\* number of hardware-detection polls the host makes
MaxDetect == 3
\* number of update calls the host makes
MaxUpdates == 2
\* allowed deviation of the squared norm from 1.0, in units of 1/(FX*FX)
NormTolerance == 100000

----------------------------------------------------------------------------
(* Program constants *)

OSVR_RETURN_SUCCESS == "OSVR_RETURN_SUCCESS"
OSVR_RETURN_FAILURE == "OSVR_RETURN_FAILURE"
\* outcome of a call that was left by an exception: no code was returned
EXCEPTION == "exception"
\* no call of that entry point has completed yet
NO_CALL == "none"

\* the literals -45.0f and 45.0f of line 68
MinAngle == -45
MaxAngle == 45
\* boost::posix_time::milliseconds(1000), line 74
SleepMs == 1000

----------------------------------------------------------------------------
(* float arithmetic *)

Abs(a) == IF a < 0 THEN -a ELSE a
Sgn(a) == IF a < 0 THEN -1 ELSE 1

\* the float n.0f
F(n) == n * FX
\* float -> int conversion (truncation toward zero), as in uniform_int<int> u(min, max)
IntOfFloat(f) == Sgn(f) * (Abs(f) \div FX)
\* int -> float conversion of getRandomFloat's result at the call in line 68
FloatOfInt(i) == i * FX

\* a * b and a / b, rounded to the nearest unit
FMul(a, b) == Sgn(a) * Sgn(b) * ((Abs(a) * Abs(b) + FX \div 2) \div FX)
FDiv(a, b) == Sgn(a) * Sgn(b) * ((Abs(a) * FX + Abs(b) \div 2) \div Abs(b))

\* boost::math::constants::pi<float>()
Pi == (355 * FX) \div 113

TwoPi == 2 * Pi
HalfPi == Pi \div 2
QuarterPi == Pi \div 4

\* sin and cos as the math library computes them: the argument is reduced
\* to the first octant, where a Taylor polynomial is evaluated in floats
SinKernel(x) ==
    LET x2 == FMul(x, x)
        x3 == FMul(x2, x)
        x5 == FMul(x3, x2)
    IN  x - FDiv(x3, F(6)) + FDiv(x5, F(120))

CosKernel(x) ==
    LET x2 == FMul(x, x)
        x4 == FMul(x2, x2)
        x6 == FMul(x4, x2)
    IN  F(1) - FDiv(x2, F(2)) + FDiv(x4, F(24)) - FDiv(x6, F(720))

\* for 0 <= a <= pi/2
SinQuadrant(a) == IF a <= QuarterPi THEN SinKernel(a) ELSE CosKernel(HalfPi - a)
CosQuadrant(a) == IF a <= QuarterPi THEN CosKernel(a) ELSE SinKernel(HalfPi - a)

sin(x) ==
    LET m == Abs(x) % TwoPi
    IN  Sgn(x) * (IF m <= HalfPi THEN SinQuadrant(m)
                  ELSE IF m <= Pi THEN SinQuadrant(Pi - m)
                  ELSE IF m <= Pi + HalfPi THEN -SinQuadrant(m - Pi)
                  ELSE -SinQuadrant(TwoPi - m))

cos(x) ==
    LET m == Abs(x) % TwoPi
    IN  IF m <= HalfPi THEN CosQuadrant(m)
        ELSE IF m <= Pi THEN -CosQuadrant(Pi - m)
        ELSE IF m <= Pi + HalfPi THEN -CosQuadrant(m - Pi)
        ELSE CosQuadrant(TwoPi - m)

----------------------------------------------------------------------------
(* OSVR_PoseState *)

Quat(x, y, z, w) == [x |-> x, y |-> y, z |-> z, w |-> w]

\* value of the variable pose while no TrackerSyncDevice exists
NoPose == [translation |-> <<0, 0, 0>>, rotation |-> Quat(0, 0, 0, 0)]

\* the member pose is not initialised by the constructor: what it may hold
UninitPoses ==
    { [translation |-> <<0, 0, 0>>, rotation |-> Quat(0, 0, 0, 0)],
      [translation |-> <<F(7), -F(3), F(5)>>, rotation |-> Quat(F(2), 0, -F(1), F(9))] }

\* variant: only the orientation is reset
osvrPose3SetIdentity_rotation_only(ps) ==
    [ps EXCEPT !.rotation = Quat(0, 0, 0, F(1))]

\* variant: the pose is not reset at all
osvrPose3SetIdentity_skipped(ps) == ps

osvrPose3SetIdentity(ps) ==
    [translation |-> <<0, 0, 0>>, rotation |-> Quat(0, 0, 0, F(1))]

\* x^2 + y^2 + z^2 + w^2 in units of 1/(FX*FX), computed exactly
Norm2(q) == q.x * q.x + q.y * q.y + q.z * q.z + q.w * q.w

----------------------------------------------------------------------------
(* TrackerSyncDevice helpers *)

\* the values uniform_int<int>(lo, hi) may produce, sampled: AngleSamples
\* points spread over lo..hi, both ends included
RandomInts(lo, hi) ==
    { lo + (k * (hi - lo)) \div (AngleSamples - 1) : k \in 0 .. AngleSamples - 1 }

\* variant: a real-valued distribution over [min, max], nothing truncated
getRandomFloat_real(min, max) ==
    { min + (k * (max - min)) \div (2 * AngleSamples + 1) : k \in 0 .. 2 * AngleSamples + 1 }

getRandomFloat(min, max) ==
    { FloatOfInt(i) : i \in RandomInts(IntOfFloat(min), IntOfFloat(max)) }

\* variant: the second product of the x component is added
updatePoseOrientation_sign(ps, pitch, yaw, roll) ==
    LET p == FDiv(FMul(pitch, FDiv(Pi, F(180))), F(2))
        y == FDiv(FMul(yaw, FDiv(Pi, F(180))), F(2))
        r == FDiv(FMul(roll, FDiv(Pi, F(180))), F(2))
        sinp == sin(p)
        siny == sin(y)
        sinr == sin(r)
        cosp == cos(p)
        cosy == cos(y)
        cosr == cos(r)
    IN  [ps EXCEPT
          !.rotation.x = FMul(FMul(sinr, cosp), cosy) + FMul(FMul(cosr, sinp), siny),
          !.rotation.y = FMul(FMul(cosr, sinp), cosy) + FMul(FMul(sinr, cosp), siny),
          !.rotation.z = FMul(FMul(cosr, cosp), siny) - FMul(FMul(sinr, sinp), cosy),
          !.rotation.w = FMul(FMul(cosr, cosp), cosy) + FMul(FMul(sinr, sinp), siny)]

updatePoseOrientation(ps, pitch, yaw, roll) ==
    LET p == FDiv(FMul(pitch, FDiv(Pi, F(180))), F(2))
        y == FDiv(FMul(yaw, FDiv(Pi, F(180))), F(2))
        r == FDiv(FMul(roll, FDiv(Pi, F(180))), F(2))
        sinp == sin(p)
        siny == sin(y)
        sinr == sin(r)
        cosp == cos(p)
        cosy == cos(y)
        cosr == cos(r)
    IN  [ps EXCEPT
          !.rotation.x = FMul(FMul(sinr, cosp), cosy) - FMul(FMul(cosr, sinp), siny),
          !.rotation.y = FMul(FMul(cosr, sinp), cosy) + FMul(FMul(sinr, cosp), siny),
          !.rotation.z = FMul(FMul(cosr, cosp), siny) - FMul(FMul(sinr, sinp), cosy),
          !.rotation.w = FMul(FMul(cosr, cosp), cosy) + FMul(FMul(sinr, sinp), siny)]

----------------------------------------------------------------------------
VARIABLES
    loaded,            \* the plugin entry point has run
    detectCallbacks,   \* hardware-detection callbacks registered with the host
    pluginRet,         \* outcome of the plugin entry point
    m_found,           \* HardwareDetection::m_found
    dpc,               \* position inside HardwareDetection::operator()
    detectCalls,       \* detection calls made by the host
    detectRet,         \* outcome of the last completed detection call
    constructAttempts, \* times new TrackerSyncDevice(ctx) was started
    ctorThrows,        \* times new TrackerSyncDevice(ctx) threw
    devices,           \* TrackerSyncDevice objects constructed
    deletionList,      \* devices handed to registerObjectForDeletion
    updateCallbacks,   \* update callbacks registered with the host
    pose,              \* TrackerSyncDevice::pose
    angles,            \* <<pitch, yaw, roll>> drawn by the current or last update
    upc,               \* position inside TrackerSyncDevice::update
    updateCalls,       \* update calls made by the host
    updateReturns,     \* update calls that have returned
    updateRet,         \* outcome of the last completed update call
    sends,             \* poses handed to osvrDeviceTrackerSendPose
    lastSent,          \* the last pose handed to the host
    slept,             \* total time the calling thread was blocked, in ms
    probe              \* a direct application of updatePoseOrientation: its
                       \* progress, its arguments and the pose it writes

vars == <<loaded, detectCallbacks, pluginRet, m_found, dpc, detectCalls, detectRet,
          constructAttempts, ctorThrows, devices, deletionList, updateCallbacks, pose, angles,
          upc, updateCalls, updateReturns, updateRet, sends, lastSent, slept, probe>>

pluginVars == <<loaded, detectCallbacks, pluginRet>>
detectVars == <<m_found, dpc, detectCalls, detectRet>>
deviceVars == <<constructAttempts, ctorThrows, devices, deletionList, updateCallbacks>>
updateVars == <<angles, upc, updateCalls, updateReturns, updateRet, sends, lastSent, slept>>
programVars == <<pluginVars, detectVars, deviceVars, updateVars, pose>>

\* updatePoseOrientation is not being applied on its own
ProbeOff == [state |-> "off", args |-> <<0, 0, 0>>, pose |-> NoPose]

ProgramInit ==
    /\ loaded = FALSE
    /\ detectCallbacks = 0
    /\ pluginRet = NO_CALL
    /\ m_found = FALSE
    /\ dpc = "idle"
    /\ detectCalls = 0
    /\ detectRet = NO_CALL
    /\ constructAttempts = 0
    /\ ctorThrows = 0
    /\ devices = 0
    /\ deletionList = 0
    /\ updateCallbacks = 0
    /\ pose = NoPose
    /\ angles = <<0, 0, 0>>
    /\ upc = "idle"
    /\ updateCalls = 0
    /\ updateReturns = 0
    /\ updateRet = NO_CALL
    /\ sends = 0
    /\ lastSent = NoPose
    /\ slept = 0

Init == ProgramInit /\ probe = ProbeOff

\* the host makes one call at a time
HostIdle == dpc = "idle" /\ upc = "idle"

----------------------------------------------------------------------------
(* OSVR_PLUGIN(com_vectionvr_osvr_motionPlatformDevicePlugin) *)

\* HardwareDetection() : m_found(false)
HardwareDetection_ctor == FALSE

\* variant: the device is created while the plugin is loaded
OSVR_PLUGIN_eager ==
    /\ ~loaded
    /\ loaded' = TRUE
    /\ m_found' = TRUE
    /\ detectCallbacks' = detectCallbacks + 1
    /\ pluginRet' = OSVR_RETURN_SUCCESS
    /\ constructAttempts' = constructAttempts + 1
    /\ devices' = devices + 1
    /\ deletionList' = deletionList + 1
    /\ updateCallbacks' = updateCallbacks + 1
    /\ pose' \in UninitPoses
    /\ UNCHANGED <<dpc, detectCalls, detectRet, ctorThrows>>
    /\ UNCHANGED updateVars
    /\ UNCHANGED probe

OSVR_PLUGIN ==
    /\ ~loaded
    /\ loaded' = TRUE
    /\ m_found' = HardwareDetection_ctor
    /\ detectCallbacks' = detectCallbacks + 1
    /\ pluginRet' = OSVR_RETURN_SUCCESS
    /\ UNCHANGED <<dpc, detectCalls, detectRet, pose>>
    /\ UNCHANGED deviceVars
    /\ UNCHANGED updateVars
    /\ UNCHANGED probe

----------------------------------------------------------------------------
(* HardwareDetection::operator() *)

\* variant: the guard on m_found is missing
HardwareDetection_setup_unguarded ==
    /\ loaded /\ HostIdle
    /\ detectCalls < MaxDetect
    /\ m_found' = TRUE
    /\ dpc' = "construct"
    /\ detectCalls' = detectCalls + 1
    /\ UNCHANGED <<detectRet, pose>>
    /\ UNCHANGED pluginVars
    /\ UNCHANGED deviceVars
    /\ UNCHANGED updateVars
    /\ UNCHANGED probe

\* variant: the flag is not set before the construction
HardwareDetection_setup_flag_late ==
    /\ loaded /\ HostIdle
    /\ detectCalls < MaxDetect
    /\ ~m_found
    /\ m_found' = m_found
    /\ dpc' = "construct"
    /\ detectCalls' = detectCalls + 1
    /\ UNCHANGED <<detectRet, pose>>
    /\ UNCHANGED pluginVars
    /\ UNCHANGED deviceVars
    /\ UNCHANGED updateVars
    /\ UNCHANGED probe

\* if (!m_found) is taken: the flag is set, construction comes next
HardwareDetection_setup ==
    /\ loaded /\ HostIdle
    /\ detectCalls < MaxDetect
    /\ ~m_found
    /\ m_found' = TRUE
    /\ dpc' = "construct"
    /\ detectCalls' = detectCalls + 1
    /\ UNCHANGED <<detectRet, pose>>
    /\ UNCHANGED pluginVars
    /\ UNCHANGED deviceVars
    /\ UNCHANGED updateVars
    /\ UNCHANGED probe

\* new TrackerSyncDevice(ctx) succeeds, the object is registered for
\* deletion and the call returns
TrackerSyncDevice_ctor ==
    /\ dpc = "construct"
    /\ constructAttempts' = constructAttempts + 1
    /\ devices' = devices + 1
    /\ ctorThrows' = ctorThrows
    /\ updateCallbacks' = updateCallbacks + 1
    /\ deletionList' = deletionList + 1
    /\ pose' \in UninitPoses
    /\ dpc' = "idle"
    /\ detectRet' = OSVR_RETURN_SUCCESS
    /\ UNCHANGED <<m_found, detectCalls>>
    /\ UNCHANGED pluginVars
    /\ UNCHANGED updateVars
    /\ UNCHANGED probe

\* new TrackerSyncDevice(ctx) throws (allocation, or initSync): nothing is
\* registered and the exception leaves operator() without a return code
TrackerSyncDevice_ctor_throws ==
    /\ dpc = "construct"
    /\ constructAttempts' = constructAttempts + 1
    /\ ctorThrows' = ctorThrows + 1
    /\ dpc' = "idle"
    /\ detectRet' = EXCEPTION
    /\ UNCHANGED <<m_found, detectCalls, pose>>
    /\ UNCHANGED <<devices, deletionList, updateCallbacks>>
    /\ UNCHANGED pluginVars
    /\ UNCHANGED updateVars
    /\ UNCHANGED probe

\* variant: a later call clears the flag
HardwareDetection_found_clears ==
    /\ loaded /\ HostIdle
    /\ detectCalls < MaxDetect
    /\ m_found
    /\ m_found' = FALSE
    /\ detectCalls' = detectCalls + 1
    /\ detectRet' = OSVR_RETURN_SUCCESS
    /\ UNCHANGED <<dpc, pose>>
    /\ UNCHANGED pluginVars
    /\ UNCHANGED deviceVars
    /\ UNCHANGED updateVars
    /\ UNCHANGED probe

\* if (!m_found) is not taken
HardwareDetection_found ==
    /\ loaded /\ HostIdle
    /\ detectCalls < MaxDetect
    /\ m_found
    /\ detectCalls' = detectCalls + 1
    /\ detectRet' = OSVR_RETURN_SUCCESS
    /\ UNCHANGED <<m_found, dpc, pose>>
    /\ UNCHANGED pluginVars
    /\ UNCHANGED deviceVars
    /\ UNCHANGED updateVars
    /\ UNCHANGED probe

----------------------------------------------------------------------------
(* TrackerSyncDevice::update *)

\* lines 66-68: reset the pose, draw three angles, write the orientation
update_compute ==
    /\ updateCallbacks > 0 /\ HostIdle
    /\ updateCalls < MaxUpdates
    /\ \E pitch \in getRandomFloat(F(MinAngle), F(MaxAngle)),
          yaw \in getRandomFloat(F(MinAngle), F(MaxAngle)),
          roll \in getRandomFloat(F(MinAngle), F(MaxAngle)) :
            /\ angles' = <<pitch, yaw, roll>>
            /\ pose' = updatePoseOrientation(osvrPose3SetIdentity(pose), pitch, yaw, roll)
    /\ upc' = "send"
    /\ updateCalls' = updateCalls + 1
    /\ UNCHANGED <<updateReturns, updateRet, sends, lastSent, slept>>
    /\ UNCHANGED pluginVars
    /\ UNCHANGED detectVars
    /\ UNCHANGED probe
    /\ UNCHANGED deviceVars

\* variant: the pose is not sent
update_send_skipped ==
    /\ upc = "send"
    /\ upc' = "sleep"
    /\ UNCHANGED <<angles, updateCalls, updateReturns, updateRet, sends, lastSent, slept, pose>>
    /\ UNCHANGED pluginVars
    /\ UNCHANGED detectVars
    /\ UNCHANGED probe
    /\ UNCHANGED deviceVars

\* line 70: osvrDeviceTrackerSendPose(m_dev, m_tracker, &pose, 0)
update_send ==
    /\ upc = "send"
    /\ sends' = sends + 1
    /\ lastSent' = pose
    /\ upc' = "sleep"
    /\ UNCHANGED <<angles, updateCalls, updateReturns, updateRet, slept, pose>>
    /\ UNCHANGED pluginVars
    /\ UNCHANGED detectVars
    /\ UNCHANGED probe
    /\ UNCHANGED deviceVars

\* line 74: boost::this_thread::sleep(boost::posix_time::milliseconds(1000))
update_sleep ==
    /\ upc = "sleep"
    /\ slept' = slept + SleepMs
    /\ upc' = "return"
    /\ UNCHANGED <<angles, updateCalls, updateReturns, updateRet, sends, lastSent, pose>>
    /\ UNCHANGED pluginVars
    /\ UNCHANGED detectVars
    /\ UNCHANGED probe
    /\ UNCHANGED deviceVars

\* variant: update reports a failure
update_return_failure ==
    /\ upc = "return"
    /\ updateRet' = OSVR_RETURN_FAILURE
    /\ updateReturns' = updateReturns + 1
    /\ upc' = "idle"
    /\ UNCHANGED <<angles, updateCalls, sends, lastSent, slept, pose>>
    /\ UNCHANGED pluginVars
    /\ UNCHANGED detectVars
    /\ UNCHANGED probe
    /\ UNCHANGED deviceVars

\* line 75: return OSVR_RETURN_SUCCESS
update_return ==
    /\ upc = "return"
    /\ updateRet' = OSVR_RETURN_SUCCESS
    /\ updateReturns' = updateReturns + 1
    /\ upc' = "idle"
    /\ UNCHANGED <<angles, updateCalls, sends, lastSent, slept, pose>>
    /\ UNCHANGED pluginVars
    /\ UNCHANGED detectVars
    /\ UNCHANGED probe
    /\ UNCHANGED deviceVars

----------------------------------------------------------------------------
Next ==
    \/ OSVR_PLUGIN
    \/ HardwareDetection_setup
    \/ TrackerSyncDevice_ctor
    \/ TrackerSyncDevice_ctor_throws
    \/ HardwareDetection_found
    \/ update_compute
    \/ update_send
    \/ update_sleep
    \/ update_return

Spec == Init /\ [][Next]_vars

----------------------------------------------------------------------------
(* updatePoseOrientation applied on its own, to arguments update never passes *)

\* float arguments: whole and fractional degrees, up to two turns either way
ProbeAngles ==
    { F(-720), F(-180) - FX \div 2, F(-90), -(FX \div 4), F(45),
      F(133) + (7 * FX) \div 10, F(360) }

InitOrientation ==
    /\ ProgramInit
    /\ \/ probe = ProbeOff
       \/ \E pitch \in ProbeAngles, yaw \in ProbeAngles, roll \in ProbeAngles :
             probe = [state |-> "ready", args |-> <<pitch, yaw, roll>>,
                      pose |-> osvrPose3SetIdentity(NoPose)]

Orient ==
    /\ probe.state = "ready"
    /\ probe' = [state |-> "done", args |-> probe.args,
                 pose |-> updatePoseOrientation(probe.pose, probe.args[1],
                                                probe.args[2], probe.args[3])]
    /\ UNCHANGED programVars

\* the plugin is loaded in the runs that do not apply the function on its own
OSVR_PLUGIN_by_host == probe.state = "off" /\ OSVR_PLUGIN

NextOrientation ==
    \/ Orient
    \/ OSVR_PLUGIN_by_host
    \/ HardwareDetection_setup
    \/ TrackerSyncDevice_ctor
    \/ TrackerSyncDevice_ctor_throws
    \/ HardwareDetection_found
    \/ update_compute
    \/ update_send
    \/ update_sleep
    \/ update_return

SpecOrientation == InitOrientation /\ [][NextOrientation]_vars

----------------------------------------------------------------------------
(* Properties *)

Origin == <<0, 0, 0>>

\* a detection call has been made and none is in progress
DetectionDone == detectCalls >= 1 /\ dpc = "idle"

\* C1 (as stated): at most one TrackerSyncDevice is ever constructed and
\* registered for deletion; the first detection call creates exactly one
\* device and every later call creates none.
C1_FirstCallCreatesExactlyOne ==
    /\ devices <= 1
    /\ deletionList <= 1
    /\ DetectionDone => devices = 1 /\ deletionList = 1

\* C1 (amended): at most one TrackerSyncDevice is ever constructed and
\* registered for deletion; only the first detection call attempts a
\* construction, it creates exactly one device when the construction
\* succeeds and none when it throws, and every later call creates none.
C1_AtMostOneDevice ==
    /\ devices <= 1
    /\ deletionList = devices
    /\ constructAttempts <= 1
    /\ DetectionDone => constructAttempts = 1 /\ devices = 1 - ctorThrows

C1_Witness == detectCalls >= 2 /\ dpc = "idle" /\ devices = 1 /\ deletionList = 1

\* C2 (as stated): every pose handed to the host has an orientation whose
\* squared norm x^2 + y^2 + z^2 + w^2 is exactly 1.
C2_ExactUnitNorm ==
    /\ sends > 0 => Norm2(lastSent.rotation) = FX * FX
    /\ probe.state = "done" => Norm2(probe.pose.rotation) = FX * FX

\* C2 (amended): every pose handed to the host has an orientation whose
\* squared norm x^2 + y^2 + z^2 + w^2 is 1 up to the rounding of the float
\* arithmetic: it differs from 1 by at most NormTolerance / (FX * FX).
C2_UnitNormWithinRounding ==
    /\ sends > 0 => Abs(Norm2(lastSent.rotation) - FX * FX) <= NormTolerance
    /\ probe.state = "done" =>
          Abs(Norm2(probe.pose.rotation) - FX * FX) <= NormTolerance

C2_Witness ==
    /\ sends > 0
    /\ lastSent = pose
    /\ angles = <<F(MaxAngle), F(MinAngle), F(MaxAngle)>>
    /\ Norm2(lastSent.rotation) # FX * FX

C4_SendThenSleepThenReturn ==
    /\ upc = "idle" =>
          updateReturns = updateCalls /\ sends = updateCalls /\ slept = 1000 * updateCalls
    /\ upc = "send" =>
          /\ updateReturns = updateCalls - 1
          /\ sends = updateCalls - 1
          /\ slept = 1000 * (updateCalls - 1)
    /\ upc = "sleep" =>
          /\ updateReturns = updateCalls - 1
          /\ sends = updateCalls
          /\ slept = 1000 * (updateCalls - 1)
    /\ upc = "return" =>
          /\ updateReturns = updateCalls - 1
          /\ sends = updateCalls
          /\ slept = 1000 * updateCalls

C4_Witness == updateReturns = 2 /\ sends = 2 /\ slept = 2000

\* C5: loading the plugin registers one hardware-detection callback and
\* creates no device; a device and its update callback come into existence
\* only during a hardware-detection call, so no update runs and no pose is
\* sent before the first hardware-detection call.
C5_NoDeviceBeforeDetection ==
    /\ [](/\ loaded => detectCallbacks = 1
          /\ detectCalls = 0 =>
                /\ devices = 0
                /\ deletionList = 0
                /\ updateCallbacks = 0
                /\ updateCalls = 0
                /\ sends = 0)
    /\ [][(devices' # devices \/ updateCallbacks' # updateCallbacks)
              => dpc = "construct" /\ detectCalls >= 1]_vars

C5_Witness ==
    loaded /\ detectCallbacks = 1 /\ detectCalls = 0 /\ devices = 0

\* C6: m_found starts false, is set to true by the first hardware-detection
\* call, and once true stays true whatever calls follow.
C6_FoundSetOnceNeverCleared ==
    /\ [](detectCalls = 0 => ~m_found)
    /\ [](detectCalls >= 1 => m_found)
    /\ [][m_found => m_found']_vars

C6_Witness == m_found /\ detectCalls >= 2 /\ updateReturns >= 1

\* C7: every pose sent to the host has its position at the origin: update
\* resets the pose and afterwards writes the orientation only.
C7_PositionAtOrigin ==
    /\ sends > 0 => lastSent.translation = Origin
    /\ upc # "idle" => pose.translation = Origin

C7_Witness ==
    /\ sends > 0
    /\ lastSent.translation = Origin
    /\ lastSent.rotation # Quat(0, 0, 0, F(1))

\* the poses the member may hold when update is entered
PriorPoses == UninitPoses \cup {NoPose, lastSent, pose}

\* C8: the pose sent by an update call is a function of the three angles
\* drawn during that call only: whatever pose was stored when the call was
\* entered, the pose computed and sent is the same.
C8_PoseDependsOnAnglesOnly ==
    /\ upc # "idle" =>
          \A prior \in PriorPoses :
              pose = updatePoseOrientation(osvrPose3SetIdentity(prior),
                                           angles[1], angles[2], angles[3])
    /\ (sends > 0 /\ upc # "send") =>
          \A prior \in PriorPoses :
              lastSent = updatePoseOrientation(osvrPose3SetIdentity(prior),
                                               angles[1], angles[2], angles[3])

C8_Witness ==
    /\ sends = 1 /\ upc = "send"
    /\ lastSent # pose
    /\ lastSent.rotation # Quat(0, 0, 0, F(1))

\* C9: each of the pitch, yaw and roll angles update passes to
\* updatePoseOrientation is a whole number of degrees in [-45, 45].
C9_AnglesWholeDegrees ==
    updateCalls > 0 =>
        \A i \in 1 .. 3 :
            /\ angles[i] % FX = 0
            /\ angles[i] >= F(-45)
            /\ angles[i] <= F(45)

C9_Witness ==
    updateCalls > 0 /\ angles[1] = F(45) /\ angles[2] = F(-45) /\ angles[3] # 0

\* C10: m_found is set before the TrackerSyncDevice is constructed, so at
\* most one construction is ever attempted; if it throws, the flag stays
\* true, no later detection call retries and the plugin has no device.
C10_NoRetryAfterThrow ==
    /\ dpc = "construct" => m_found /\ constructAttempts = 0
    /\ constructAttempts <= 1
    /\ ctorThrows > 0 =>
          /\ m_found
          /\ devices = 0
          /\ deletionList = 0
          /\ updateCallbacks = 0
          /\ updateCalls = 0
          /\ sends = 0

C10_Witness ==
    ctorThrows = 1 /\ detectCalls = MaxDetect /\ dpc = "idle" /\ devices = 0
====
